---- MODULE Spec2Model ----
(***************************************************************************)
(* Model of the review analyzer (MainGui.py): the Tk UI thread with its    *)
(* queue of root.after callbacks, the run_analysis worker threads started  *)
(* by start_analysis_thread, and the aggregation run_analysis performs.    *)
(* With it, the standalone viewer of the same database (DatabaseTest.py):   *)
(* the grid filled by load_feedback.                                       *)
(***************************************************************************)
EXTENDS Integers, Sequences, FiniteSets, TLC

\* ---------------------------------------------------------------- bounds
\* number of clicks (threads started) explored
MaxRuns == 2
\* largest number of rows the query returns (application specifications)
MaxRows == 1
\* largest number of rows the query returns (pipeline specification)
MaxReviews == 2
\* callbacks pending in the Tk queue at once (application specifications)
MaxQueue == 2

\* largest number of rows of the table the viewer reads
MaxStoreRows == 2
\* number of clicks on the viewer's load button explored
MaxLoads == 2

\* the threads of the clicks explored; the specification of overlapping
\* runs takes one click more than the others
Runs == 1..(MaxRuns + 1)

\* every callback one run over MaxReviews rows posts
PipelineQueue == MaxReviews + 8

\* ------------------------------------------------- values of the service
Sentiments == {"positive", "negative", "neutral"}
Features == {"display", "price"}

\* An aspect object of the JSON payload: the set of keys it has and their
\* values ("" for a key that is absent).
WellFormedAspects ==
    [keys : {{"feature", "sentiment"}}, feature : Features, sentiment : Sentiments]

MalformedAspects ==
    {[keys |-> {"feature"}, feature |-> "display", sentiment |-> ""]}
    \cup [keys : {{"sentiment"}}, feature : {""}, sentiment : Sentiments]

AspectUniverse == WellFormedAspects \cup MalformedAspects

\* The "aspects" lists of the responses: empty, every single aspect, and
\* the pairs of positive aspects (a repeated feature, two features in both
\* orders).
AspectLists ==
    {<<>>}
    \cup {<<a>> : a \in AspectUniverse}
    \cup {<<a, b>> : a, b \in {x \in WellFormedAspects : x.sentiment = "positive"}}

\* What one chat.completions.create call of analyze_single_review can do:
\* raise, return content json.loads rejects, or return a JSON object with
\* any subset of the keys "sentiment" and "aspects".
FailedResponses ==
    {[kind |-> k, keys |-> {}, sentiment |-> "", aspects |-> <<>>] : k \in {"raise", "badjson"}}

JsonResponses ==
    {[kind |-> "json",
      keys |-> (IF s = "" THEN {} ELSE {"sentiment"}) \cup (IF hasAspects THEN {"aspects"} ELSE {}),
      sentiment |-> s,
      aspects |-> IF hasAspects THEN l ELSE <<>>] :
        s \in Sentiments \cup {""},
        hasAspects \in BOOLEAN,
        l \in AspectLists}

Responses == FailedResponses \cup JsonResponses

\* The responses that decide which way run_analysis goes after the loop: one
\* that is appended and aggregated, one whose aspect makes line 150 raise.
ControlResponses ==
    {[kind |-> "json", keys |-> {"sentiment"}, sentiment |-> "positive", aspects |-> <<>>],
     [kind |-> "json", keys |-> {"sentiment", "aspects"}, sentiment |-> "negative",
      aspects |-> <<[keys |-> {"feature"}, feature |-> "display", sentiment |-> ""]>>]}

\* The responses the application specification draws from: those, and
\* a call that raises, whose review the loop skips.
CoreResponses ==
    ControlResponses
    \cup {[kind |-> "raise", keys |-> {}, sentiment |-> "", aspects |-> <<>>]}

\* ------------------------------------------------------- pure functions
None == [isNone |-> TRUE, keys |-> {}, sentiment |-> "", aspects |-> <<>>]

\* analyze_single_review: the parsed object, or None when the call or
\* json.loads raised.
analyze_single_review(resp) ==
    IF resp.kind = "json"
    THEN [isNone |-> FALSE, keys |-> resp.keys, sentiment |-> resp.sentiment,
          aspects |-> resp.aspects]
    ELSE None

\* the loop body without the test of line 139
IfAnalysis_Always(a) == TRUE

\* Python truth value of the analysis at "if analysis:": None and the empty
\* dict are false.
IfAnalysis(a) == (~a.isNone) /\ a.keys # {}

\* analysis.get('sentiment', 'neutral')
GetSentiment(a) == IF "sentiment" \in a.keys THEN a.sentiment ELSE "neutral"

\* analysis.get('aspects', [])
GetAspects(a) == IF "aspects" \in a.keys THEN a.aspects ELSE <<>>

Range(s) == {s[k] : k \in DOMAIN s}

RECURSIVE CountOf(_, _)
CountOf(s, x) ==
    IF s = <<>> THEN 0
    ELSE (IF Head(s) = x THEN 1 ELSE 0) + CountOf(Tail(s), x)

\* collections.Counter(list): one key per distinct element.
Counter(s) == [x \in Range(s) |-> CountOf(s, x)]

RECURSIVE SumValues(_)
SumValues(c) ==
    IF DOMAIN c = {} THEN 0
    ELSE LET k == CHOOSE x \in DOMAIN c : TRUE
         IN  c[k] + SumValues([x \in DOMAIN c \ {k} |-> c[x]])

\* [a['feature'] for a in aspects if a['sentiment'] == which]
\* raises KeyError at the first aspect that lacks 'sentiment', or that has
\* the sentiment asked for and lacks 'feature'.
FeaturesRaises(aspects, which) ==
    \E k \in DOMAIN aspects :
        \/ "sentiment" \notin aspects[k].keys
        \/ aspects[k].sentiment = which /\ "feature" \notin aspects[k].keys

\* the comprehension without its "if a['sentiment'] == which"
FeaturesOf_AnySentiment(aspects, which) ==
    [k \in DOMAIN aspects |-> aspects[k].feature]

RECURSIVE FeaturesOf(_, _)
FeaturesOf(aspects, which) ==
    IF aspects = <<>> THEN <<>>
    ELSE (IF Head(aspects).sentiment = which THEN <<Head(aspects).feature>> ELSE <<>>)
         \o FeaturesOf(Tail(aspects), which)

\* get_final_summary: the response text, or the diagnostic string built in
\* the except clause.
get_final_summary(outcome) ==
    IF outcome = "ok" THEN "summary text" ELSE "Error generating final summary: e"

\* ---------------------------------------------------------------- state
VARIABLES
    button,     \* analyze_button state: "normal" or "disabled"
    status,     \* text of status_label, as the kind of message shown
    tabs,       \* for each of the five tabs, the runs whose content it shows
    uiQueue,    \* callbacks handed to the UI thread with root.after(0, ...)
    worker,     \* the thread of each run: its position and run_analysis locals
    nruns,      \* threads started so far
    hist,       \* per run, the callbacks posted and applied, the way the
                \* run ended and the aggregate it computed
    analyzer,   \* what the service answers for each review text, where a
                \* specification fixes it; <<>> where every call is free
    \* the standalone viewer (DatabaseTest.py)
    store,      \* feedback.db as the viewer finds it: the file and its rows
    tree,       \* the rows of the grid
    notices,    \* the message boxes shown by the latest load_feedback
    vconn,      \* the connection of the latest load_feedback
    last,       \* the outcome of the latest load_feedback, the rows its query
                \* returned and what the grid held when it was called
    loads       \* calls of load_feedback so far

appVars == <<button, status, tabs, uiQueue, worker, nruns, hist, analyzer>>

viewerVars == <<store, tree, notices, vconn, last, loads>>

vars == <<appVars, viewerVars>>

Regions == {"summary", "sentiment", "pos_aspects", "neg_aspects", "all_reviews"}

\* A thread that has not been started, and the locals of run_analysis before
\* its first statement.
NewWorker ==
    [pc |-> "unstarted", conn |-> "none", all_reviews_text |-> <<>>, i |-> 0,
     all_results |-> <<>>, all_sentiments |-> <<>>, all_aspects |-> <<>>,
     sentiment_counts |-> <<>>, pos_aspect_words |-> <<>>, neg_aspect_words |-> <<>>,
     final_summary |-> "",
     \* a record of the run so far: rows loaded (-1: the read raised, -2: not
     \* read yet), service calls made, their responses, diagnostic statuses
     \* posted, the steps taken
     loaded |-> -2, calls |-> 0, responses |-> <<>>, diagPosted |-> 0, log |-> <<>>]

NewHist ==
    [enablePosted |-> 0, enableApplied |-> 0, populatePosted |-> 0, populateApplied |-> 0,
     outcome |-> "none",
     \* the rows the run aggregated over and the aggregate of lines 147-151
     rows |-> -1, aggregate |-> <<>>]

\* run_analysis has returned: the thread ends and its locals are gone
Returned(w) == [NewWorker EXCEPT !.pc = "dead", !.conn = w.conn]

\* ReviewAnalyzerApp.__init__
AppInit ==
    /\ button = "normal"
    /\ status = "ready"
    /\ tabs = [t \in Regions |-> IF t = "summary" THEN {0} ELSE {}]
    /\ uiQueue = <<>>
    /\ worker = [r \in Runs |-> NewWorker]
    /\ nruns = 0
    /\ hist = [r \in Runs |-> NewHist]

\* DatabaseTest.py at root.mainloop(): an empty grid, nothing loaded yet
ViewerInit ==
    /\ store = [file |-> "absent", rows |-> <<>>]
    /\ tree = <<>>
    /\ notices = <<>>
    /\ vconn = "none"
    /\ last = [outcome |-> "none", rows |-> <<>>, before |-> <<>>]
    /\ loads = 0

\* the application started, every service call free to answer anything
Init == AppInit /\ analyzer = <<>> /\ ViewerInit

\* the thread is inside run_analysis
Running(r) == worker[r].pc \notin {"unstarted", "dead"}

\* ------------------------------------------------------------ UI thread
\* clear_previous_results
clear_previous_results == [t \in Regions |-> {}]

\* start_analysis_thread, the command of analyze_button; Tk does not invoke
\* the command of a disabled button.
start_analysis_thread ==
    /\ button = "normal"
    /\ nruns + 1 \in Runs
    /\ button' = "disabled"
    /\ tabs' = clear_previous_results
    /\ nruns' = nruns + 1
    /\ worker' = [worker EXCEPT ![nruns + 1].pc = "L113"]
    /\ UNCHANGED <<status, uiQueue, hist, analyzer, viewerVars>>

\* populate_gui and the draw functions adding to a tab without the delete of
\* lines 265 and 276 and the destroy loops of lines 292-293 and 312-313
populate_gui_NoDestroy(cb) ==
    [t \in Regions |->
        IF t = "all_reviews" /\ cb.results = <<>> THEN tabs[t] ELSE tabs[t] \cup {cb.run}]

\* populate_gui: every tab drops what it showed and shows this run's data;
\* the listing tab gets one block per entry of all_results.
populate_gui(cb) ==
    [t \in Regions |->
        IF t = "all_reviews" /\ cb.results = <<>> THEN {} ELSE {cb.run}]

\* The Tk main loop runs the oldest pending root.after callback.
UIProcess ==
    /\ uiQueue # <<>>
    /\ LET cb == Head(uiQueue) IN
        /\ uiQueue' = Tail(uiQueue)
        /\ status' = IF cb.type = "status" THEN cb.msg ELSE status
        /\ button' = IF cb.type = "enable" THEN "normal" ELSE button
        /\ tabs' = IF cb.type = "populate" THEN populate_gui(cb) ELSE tabs
        /\ hist' = IF cb.type = "enable"
                   THEN [hist EXCEPT ![cb.run].enableApplied = @ + 1]
                   ELSE IF cb.type = "populate"
                   THEN [hist EXCEPT ![cb.run].populateApplied = @ + 1]
                   ELSE hist
    /\ UNCHANGED <<worker, nruns, analyzer, viewerVars>>

\* --------------------------------------------------------- worker thread
\* root.after never blocks; each specification caps how many callbacks may
\* be pending at once.
CanPost(Q) == Len(uiQueue) < Q

\* update_status(message)
update_status(r, m, a) ==
    uiQueue' = Append(uiQueue, [type |-> "status", run |-> r, msg |-> m, arg |-> a])

\* root.after(0, lambda: self.analyze_button.config(state="normal", ...))
PostEnable(r) ==
    /\ uiQueue' = Append(uiQueue, [type |-> "enable", run |-> r])
    /\ hist' = [hist EXCEPT ![r].enablePosted = @ + 1]

\* line 113
PostConnecting(r, Q) ==
    /\ worker[r].pc = "L113"
    /\ CanPost(Q)
    /\ update_status(r, "connecting", 0)
    /\ worker' = [worker EXCEPT ![r].pc = "L115"]
    /\ UNCHANGED <<button, status, tabs, nruns, hist, analyzer, viewerVars>>

\* line 115: sqlite3.connect returns a connection or raises
Connect(r) ==
    /\ worker[r].pc = "L115"
    /\ \E res \in {"ok", "OperationalError"} :
        worker' = [worker EXCEPT ![r].pc = IF res = "ok" THEN "L116" ELSE "L166",
                                 ![r].conn = IF res = "ok" THEN "open" ELSE "none",
                                 ![r].loaded = IF res = "ok" THEN @ ELSE -1]
    /\ UNCHANGED <<button, status, tabs, uiQueue, nruns, hist, analyzer, viewerVars>>

\* lines 116-119: the query returns n rows (a review text is told apart by
\* the position of its row) and the connection is closed, or
\* execute/fetchall raises (OperationalError for a missing table or column,
\* another sqlite3 error for a file that is not a database).
Query(r, N) ==
    /\ worker[r].pc = "L116"
    /\ \/ \E n \in 0..N :
            worker' = [worker EXCEPT ![r].pc = "L121",
                                     ![r].all_reviews_text = [k \in 1..n |-> k],
                                     ![r].conn = "closed",
                                     ![r].loaded = n,
                                     ![r].log = Append(@, [ev |-> "db", arg |-> n])]
       \/ \E exc \in {"L166", "L168"} :
            worker' = [worker EXCEPT ![r].pc = exc,
                                     ![r].loaded = -1,
                                     ![r].log = Append(@, [ev |-> "db", arg |-> -1])]
    /\ UNCHANGED <<button, status, tabs, uiQueue, nruns, hist, analyzer, viewerVars>>

\* lines 121-126 without the return of line 124
CheckEmpty_NoReturn(r, Q) ==
    /\ worker[r].pc = "L121"
    /\ CanPost(Q)
    /\ IF worker[r].all_reviews_text = <<>>
       THEN /\ update_status(r, "noreviews", 0)
            /\ worker' = [worker EXCEPT ![r].pc = "L133", ![r].i = 1]
            /\ hist' = [hist EXCEPT ![r].outcome = "empty"]
       ELSE /\ update_status(r, "loaded", Len(worker[r].all_reviews_text))
            /\ worker' = [worker EXCEPT ![r].pc = "L133", ![r].i = 1]
            /\ hist' = hist
    /\ UNCHANGED <<button, status, tabs, nruns, analyzer, viewerVars>>

\* lines 121-126
CheckEmpty(r, Q) ==
    /\ worker[r].pc = "L121"
    /\ CanPost(Q)
    /\ IF worker[r].all_reviews_text = <<>>
       THEN /\ update_status(r, "noreviews", 0)
            /\ worker' = [worker EXCEPT ![r].pc = "L123"]
            /\ hist' = [hist EXCEPT ![r].outcome = "empty"]
       ELSE /\ update_status(r, "loaded", Len(worker[r].all_reviews_text))
            /\ worker' = [worker EXCEPT ![r].pc = "L133", ![r].i = 1]
            /\ hist' = hist
    /\ UNCHANGED <<button, status, tabs, nruns, analyzer, viewerVars>>

\* lines 123-124: the re-enable posted on the empty result; return enters
\* the finally clause
PostEnableEmpty(r, Q) ==
    /\ worker[r].pc = "L123"
    /\ CanPost(Q)
    /\ PostEnable(r)
    /\ worker' = [worker EXCEPT ![r].pc = "L171"]
    /\ UNCHANGED <<button, status, tabs, nruns, analyzer, viewerVars>>

\* line 133-134: the loop takes the next row and posts its progress
PostAnalyzing(r, Q) ==
    /\ worker[r].pc = "L133"
    /\ worker[r].i <= Len(worker[r].all_reviews_text)
    /\ CanPost(Q)
    /\ update_status(r, "analyzing", worker[r].i)
    /\ worker' = [worker EXCEPT ![r].pc = "L137"]
    /\ UNCHANGED <<button, status, tabs, nruns, hist, analyzer, viewerVars>>

\* the loop body calling analyze_single_review again on the same row when
\* it returned None
AnalyzeReview_Retry(r, resp) ==
    /\ worker[r].pc = "L137"
    /\ LET w == worker[r]
           review_text == w.all_reviews_text[w.i]
           analysis == analyze_single_review(resp)
       IN  worker' = [worker EXCEPT
                ![r].pc = IF analysis.isNone THEN "L137" ELSE "L133",
                ![r].i = IF analysis.isNone THEN @ ELSE w.i + 1,
                ![r].all_results =
                    IF IfAnalysis(analysis)
                    THEN Append(@, [review |-> review_text, analysis |-> analysis]) ELSE @,
                ![r].all_sentiments =
                    IF IfAnalysis(analysis) THEN Append(@, GetSentiment(analysis)) ELSE @,
                ![r].all_aspects =
                    IF IfAnalysis(analysis) THEN @ \o GetAspects(analysis) ELSE @,
                ![r].calls = @ + 1,
                ![r].responses = Append(@, resp),
                ![r].log = Append(@, [ev |-> "analyze", arg |-> review_text])]
    /\ UNCHANGED <<button, status, tabs, uiQueue, nruns, hist, analyzer, viewerVars>>

\* lines 137-142: one call of analyze_single_review on row i, and the
\* appends made when its result is true
AnalyzeReview(r, resp) ==
    /\ worker[r].pc = "L137"
    /\ LET w == worker[r]
           review_text == w.all_reviews_text[w.i]
           analysis == analyze_single_review(resp)
       IN  worker' = [worker EXCEPT
                ![r].pc = "L133",
                ![r].i = w.i + 1,
                ![r].all_results =
                    IF IfAnalysis(analysis)
                    THEN Append(@, [review |-> review_text, analysis |-> analysis]) ELSE @,
                ![r].all_sentiments =
                    IF IfAnalysis(analysis) THEN Append(@, GetSentiment(analysis)) ELSE @,
                ![r].all_aspects =
                    IF IfAnalysis(analysis) THEN @ \o GetAspects(analysis) ELSE @,
                ![r].calls = @ + 1,
                ![r].responses = Append(@, resp),
                ![r].log = Append(@, [ev |-> "analyze", arg |-> review_text])]
    /\ UNCHANGED <<button, status, tabs, uiQueue, nruns, hist, analyzer, viewerVars>>

\* line 144: the loop is exhausted
PostProcessing(r, Q) ==
    /\ worker[r].pc = "L133"
    /\ worker[r].i > Len(worker[r].all_reviews_text)
    /\ CanPost(Q)
    /\ update_status(r, "processing", 0)
    /\ worker' = [worker EXCEPT ![r].pc = "L147"]
    /\ UNCHANGED <<button, status, tabs, nruns, hist, analyzer, viewerVars>>

\* the lists of lines 128-131 kept from one run to the next instead of being
\* created empty by each call: the aggregate of a run includes what the run
\* before it collected
Aggregate_Accumulates(r) ==
    /\ worker[r].pc = "L147"
    /\ LET w == worker[r]
           posRaises == FeaturesRaises(w.all_aspects, "positive")
           negRaises == FeaturesRaises(w.all_aspects, "negative")
           before == IF r > 1 /\ hist[r - 1].aggregate # <<>>
                     THEN hist[r - 1].aggregate[1]
                     ELSE [sentiments |-> <<>>, pos |-> <<>>, neg |-> <<>>]
           sentiments == before.sentiments \o w.all_sentiments
           counts == Counter(sentiments)
           pos == before.pos \o FeaturesOf(w.all_aspects, "positive")
           neg == before.neg \o FeaturesOf(w.all_aspects, "negative")
       IN  /\ worker' = [worker EXCEPT
                ![r].sentiment_counts = counts,
                ![r].pos_aspect_words = IF posRaises THEN @ ELSE pos,
                ![r].neg_aspect_words = IF posRaises \/ negRaises THEN @ ELSE neg,
                ![r].pc = IF posRaises \/ negRaises THEN "L168" ELSE "L154",
                ![r].log = Append(@, [ev |-> "aggregate", arg |-> 0])]
           /\ hist' = IF posRaises \/ negRaises THEN hist
                      ELSE [hist EXCEPT ![r].rows = Len(w.all_reviews_text),
                                        ![r].aggregate = <<[sentiments |-> sentiments,
                                                            counts |-> counts,
                                                            pos |-> pos, neg |-> neg]>>]
    /\ UNCHANGED <<button, status, tabs, uiQueue, nruns, analyzer, viewerVars>>

\* lines 147-151: the counts and the two word lists; a KeyError raised by a
\* list comprehension is caught at line 167
Aggregate(r) ==
    /\ worker[r].pc = "L147"
    /\ LET w == worker[r]
           posRaises == FeaturesRaises(w.all_aspects, "positive")
           negRaises == FeaturesRaises(w.all_aspects, "negative")
           counts == Counter(w.all_sentiments)
           pos == FeaturesOf(w.all_aspects, "positive")
           neg == FeaturesOf(w.all_aspects, "negative")
       IN  /\ worker' = [worker EXCEPT
                ![r].sentiment_counts = counts,
                ![r].pos_aspect_words = IF posRaises THEN @ ELSE pos,
                ![r].neg_aspect_words = IF posRaises \/ negRaises THEN @ ELSE neg,
                ![r].pc = IF posRaises \/ negRaises THEN "L168" ELSE "L154",
                ![r].log = Append(@, [ev |-> "aggregate", arg |-> 0])]
           /\ hist' = IF posRaises \/ negRaises THEN hist
                      ELSE [hist EXCEPT ![r].rows = Len(w.all_reviews_text),
                                        ![r].aggregate = <<[counts |-> counts,
                                                            pos |-> pos, neg |-> neg]>>]
    /\ UNCHANGED <<button, status, tabs, uiQueue, nruns, analyzer, viewerVars>>

\* line 154
PostSummarizing(r, Q) ==
    /\ worker[r].pc = "L154"
    /\ CanPost(Q)
    /\ update_status(r, "summarizing", 0)
    /\ worker' = [worker EXCEPT ![r].pc = "L155"]
    /\ UNCHANGED <<button, status, tabs, nruns, hist, analyzer, viewerVars>>

\* get_final_summary letting the exception of the call through
Summarize_Propagates(r, outcome) ==
    /\ worker[r].pc = "L155"
    /\ worker' = [worker EXCEPT ![r].final_summary = IF outcome = "ok" THEN "summary text" ELSE @,
                                ![r].pc = IF outcome = "ok" THEN "L160" ELSE "L168",
                                ![r].calls = @ + 1,
                                ![r].log = Append(@, [ev |-> "summary",
                                                      arg |-> IF outcome = "ok" THEN 0 ELSE 1])]
    /\ UNCHANGED <<button, status, tabs, uiQueue, nruns, hist, analyzer, viewerVars>>

\* lines 155-156: create_summary_prompt and the one call of get_final_summary
Summarize(r, outcome) ==
    /\ worker[r].pc = "L155"
    /\ worker' = [worker EXCEPT ![r].final_summary = get_final_summary(outcome),
                                ![r].pc = "L160",
                                ![r].calls = @ + 1,
                                ![r].log = Append(@, [ev |-> "summary",
                                                      arg |-> IF outcome = "ok" THEN 0 ELSE 1])]
    /\ UNCHANGED <<button, status, tabs, uiQueue, nruns, hist, analyzer, viewerVars>>

\* lines 160-161: root.after(0, self.populate_gui, ...)
PostPopulate(r, Q) ==
    /\ worker[r].pc = "L160"
    /\ CanPost(Q)
    /\ LET w == worker[r] IN
        uiQueue' = Append(uiQueue,
            [type |-> "populate", run |-> r, summary |-> w.final_summary,
             counts |-> w.sentiment_counts, pos |-> w.pos_aspect_words,
             neg |-> w.neg_aspect_words, results |-> w.all_results])
    /\ worker' = [worker EXCEPT ![r].pc = "L163",
                                ![r].log = Append(@, [ev |-> "handoff", arg |-> 0])]
    /\ hist' = [hist EXCEPT ![r].populatePosted = @ + 1]
    /\ UNCHANGED <<button, status, tabs, nruns, analyzer, viewerVars>>

\* line 163
PostComplete(r, Q) ==
    /\ worker[r].pc = "L163"
    /\ CanPost(Q)
    /\ update_status(r, "complete", Len(worker[r].all_reviews_text))
    /\ worker' = [worker EXCEPT ![r].pc = "L171"]
    /\ hist' = [hist EXCEPT ![r].outcome = "completed"]
    /\ UNCHANGED <<button, status, tabs, nruns, analyzer, viewerVars>>

\* the handler of line 165 configuring status_label from the worker thread
PostDbError_Direct(r, Q) ==
    /\ worker[r].pc = "L166"
    /\ status' = "dberror"
    /\ worker' = [worker EXCEPT ![r].pc = "L171", ![r].diagPosted = @ + 1]
    /\ hist' = [hist EXCEPT ![r].outcome = "dberror"]
    /\ UNCHANGED <<button, tabs, uiQueue, nruns, analyzer, viewerVars>>

\* lines 165-166: except sqlite3.OperationalError
PostDbError(r, Q) ==
    /\ worker[r].pc = "L166"
    /\ CanPost(Q)
    /\ update_status(r, "dberror", 0)
    /\ worker' = [worker EXCEPT ![r].pc = "L171", ![r].diagPosted = @ + 1]
    /\ hist' = [hist EXCEPT ![r].outcome = "dberror"]
    /\ UNCHANGED <<button, status, tabs, nruns, analyzer, viewerVars>>

\* the handler of line 167 leaving run_analysis without the finally clause
PostUnexpected_SkipsFinally(r, Q) ==
    /\ worker[r].pc = "L168"
    /\ CanPost(Q)
    /\ update_status(r, "unexpected", 0)
    /\ worker' = [worker EXCEPT ![r] = Returned(worker[r])]
    /\ hist' = [hist EXCEPT ![r].outcome = "unexpected"]
    /\ UNCHANGED <<button, status, tabs, nruns, analyzer, viewerVars>>

\* the handler of line 167 handing the partial results to populate_gui
PostUnexpected_Populates(r, Q) ==
    /\ worker[r].pc = "L168"
    /\ CanPost(Q)
    /\ LET w == worker[r] IN
        uiQueue' = Append(uiQueue,
            [type |-> "populate", run |-> r, summary |-> w.final_summary,
             counts |-> w.sentiment_counts, pos |-> w.pos_aspect_words,
             neg |-> w.neg_aspect_words, results |-> w.all_results])
    /\ worker' = [worker EXCEPT ![r].pc = "L171", ![r].diagPosted = @ + 1]
    /\ hist' = [hist EXCEPT ![r].outcome = "unexpected", ![r].populatePosted = @ + 1]
    /\ UNCHANGED <<button, status, tabs, nruns, analyzer, viewerVars>>

\* lines 167-168: except Exception
PostUnexpected(r, Q) ==
    /\ worker[r].pc = "L168"
    /\ CanPost(Q)
    /\ update_status(r, "unexpected", 0)
    /\ worker' = [worker EXCEPT ![r].pc = "L171", ![r].diagPosted = @ + 1]
    /\ hist' = [hist EXCEPT ![r].outcome = "unexpected"]
    /\ UNCHANGED <<button, status, tabs, nruns, analyzer, viewerVars>>

\* lines 169-171: the finally clause, after which run_analysis returns
FinallyEnable(r, Q) ==
    /\ worker[r].pc = "L171"
    /\ CanPost(Q)
    /\ PostEnable(r)
    /\ worker' = [worker EXCEPT ![r] = Returned(worker[r])]
    /\ UNCHANGED <<button, status, tabs, nruns, analyzer, viewerVars>>

\* -------------------------------------------------------- specifications
\* one step of the thread of run r: the query returns at most N rows, the
\* service responses are drawn from R, at most Q callbacks are pending
WorkerStep(r, R, N, Q) ==
    \/ PostConnecting(r, Q)
    \/ Connect(r)
    \/ Query(r, N)
    \/ CheckEmpty(r, Q)
    \/ PostEnableEmpty(r, Q)
    \/ PostAnalyzing(r, Q)
    \/ \E resp \in R : AnalyzeReview(r, resp)
    \/ PostProcessing(r, Q)
    \/ Aggregate(r)
    \/ PostSummarizing(r, Q)
    \/ \E outcome \in {"ok", "raise"} : Summarize(r, outcome)
    \/ PostPopulate(r, Q)
    \/ PostComplete(r, Q)
    \/ PostDbError(r, Q)
    \/ PostUnexpected(r, Q)
    \/ FinallyEnable(r, Q)

\* The application: any number of clicks up to MaxRuns, every interleaving
\* of the UI thread and the worker threads.
Next ==
    \/ nruns < MaxRuns /\ start_analysis_thread
    \/ UIProcess
    \/ \E r \in Runs : WorkerStep(r, CoreResponses, MaxRows, MaxQueue)

Spec == Init /\ [][Next]_vars

\* The application with the main loop and every started thread scheduled:
\* the main loop keeps running pending callbacks, a thread that can take a
\* step takes it (every external call returns or raises).
FairNext ==
    \/ nruns < MaxRuns /\ start_analysis_thread
    \/ UIProcess
    \/ \E r \in Runs : WorkerStep(r, ControlResponses, MaxRows, MaxQueue)

FairSpec ==
    /\ Init
    /\ [][FairNext]_vars
    /\ WF_vars(UIProcess)
    /\ \A r \in Runs : WF_vars(WorkerStep(r, ControlResponses, MaxRows, MaxQueue))

\* One run of the pipeline, the thread of run_analysis on its own, over every
\* service response of Responses; the callbacks it posts stay pending.
PipelineNext ==
    \/ nruns = 0 /\ start_analysis_thread
    \/ WorkerStep(1, Responses, MaxReviews, PipelineQueue)

PipelineSpec == Init /\ [][PipelineNext]_vars

\* The answers of a deterministic service to the reviews of an unchanged
\* table: plain sentiments, and aspects of both signs.
RerunResponses ==
    {[kind |-> "json", keys |-> {"sentiment", "aspects"}, sentiment |-> "positive",
      aspects |-> <<[keys |-> {"feature", "sentiment"}, feature |-> "display",
                     sentiment |-> "positive"]>>],
     [kind |-> "json", keys |-> {"sentiment", "aspects"}, sentiment |-> "negative",
      aspects |-> <<[keys |-> {"feature", "sentiment"}, feature |-> "price",
                     sentiment |-> "negative"]>>]}

\* the answer of the service to the review the loop of run r is at
AnalyzerAnswer(r) ==
    IF worker[r].pc = "L137"
    THEN {analyzer[worker[r].all_reviews_text[worker[r].i]]}
    ELSE {}

\* The application over a service that answers the same review text the same
\* way in every run.
RerunInit == AppInit /\ analyzer \in [1..MaxRows -> RerunResponses] /\ ViewerInit

RerunNext ==
    \/ nruns < MaxRuns /\ start_analysis_thread
    \/ UIProcess
    \/ \E r \in Runs : WorkerStep(r, AnalyzerAnswer(r), MaxRows, MaxQueue)

RerunSpec == RerunInit /\ [][RerunNext]_vars

\* The answer that lets a run complete.
CompletingResponses ==
    {[kind |-> "json", keys |-> {"sentiment"}, sentiment |-> "positive", aspects |-> <<>>]}

\* The application with one click more, for the runs that overlap: a run that
\* found no rows has its second re-enable applied while the next run is
\* running, so that a third can be started beside it.
OverlapNext ==
    \/ start_analysis_thread
    \/ UIProcess
    \/ \E r \in Runs : WorkerStep(r, CompletingResponses, MaxRows, MaxQueue)

OverlapSpec == Init /\ [][OverlapNext]_vars

\* ------------------------------------------- the viewer, DatabaseTest.py
\* The rows a query can return: (id, review_text) tuples told apart by their
\* id, in any order, no id twice.
RowSeqs ==
    {q \in UNION {[1..n -> 1..MaxStoreRows] : n \in 0..MaxStoreRows} :
        \A j, k \in DOMAIN q : j # k => q[j] # q[k]}

\* feedback.db: absent, a file the query fails on (no reviews table, not a
\* database), or a database with its rows
StoreStates ==
    {[file |-> f, rows |-> <<>>] : f \in {"absent", "notable"}}
    \cup {[file |-> "ok", rows |-> q] : q \in RowSeqs}

\* messagebox.showerror(title, ...) and messagebox.showinfo("Info", ...)
ShowError(title) == [kind |-> "error", title |-> title]

ShowInfo == [kind |-> "info", title |-> "Info"]

\* load_feedback closing the connection after fetchall, inside the try
\* block, instead of in the finally clause
LoadResult_CloseInTry(st, connectOk) ==
    IF st.file = "absent"
    THEN [outcome |-> "absent", rows |-> <<>>, notices |-> <<ShowError("Error")>>,
          conn |-> "none"]
    ELSE IF ~connectOk
    THEN [outcome |-> "connectfailed", rows |-> <<>>,
          notices |-> <<ShowError("Database Error")>>, conn |-> "none"]
    ELSE IF st.file = "notable"
    THEN [outcome |-> "queryfailed", rows |-> <<>>,
          notices |-> <<ShowError("Database Error")>>, conn |-> "open"]
    ELSE IF st.rows = <<>>
    THEN [outcome |-> "empty", rows |-> <<>>, notices |-> <<ShowInfo>>, conn |-> "closed"]
    ELSE [outcome |-> "rows", rows |-> st.rows, notices |-> <<>>, conn |-> "closed"]

\* load_feedback, lines 28-57, after the grid has been emptied: the rows it
\* inserts, the message boxes it shows and the connection as it leaves it.
\* Line 29 returns when the file is absent; sqlite3.connect (line 36) or the
\* query (lines 40-41) may raise sqlite3.Error, caught at line 51; the
\* finally clause closes the connection if line 36 had assigned it.
LoadResult(st, connectOk) ==
    IF st.file = "absent"
    THEN [outcome |-> "absent", rows |-> <<>>, notices |-> <<ShowError("Error")>>,
          conn |-> "none"]
    ELSE IF ~connectOk
    THEN [outcome |-> "connectfailed", rows |-> <<>>,
          notices |-> <<ShowError("Database Error")>>, conn |-> "none"]
    ELSE IF st.file = "notable"
    THEN [outcome |-> "queryfailed", rows |-> <<>>,
          notices |-> <<ShowError("Database Error")>>, conn |-> "closed"]
    ELSE IF st.rows = <<>>
    THEN [outcome |-> "empty", rows |-> <<>>, notices |-> <<ShowInfo>>, conn |-> "closed"]
    ELSE [outcome |-> "rows", rows |-> st.rows, notices |-> <<>>, conn |-> "closed"]

\* load_feedback without the loop of lines 25-26 that empties the grid
load_feedback_NoClear ==
    /\ loads < MaxLoads
    /\ \E connectOk \in BOOLEAN :
        LET res == LoadResult(store, connectOk) IN
        /\ tree' = tree \o res.rows
        /\ notices' = res.notices
        /\ vconn' = res.conn
        /\ last' = [outcome |-> res.outcome, rows |-> res.rows, before |-> tree]
    /\ loads' = loads + 1
    /\ UNCHANGED <<store, appVars>>

\* load_feedback, the command of load_button: the grid is emptied (lines
\* 25-26), then filled with the rows of the query in their order (48-49)
load_feedback ==
    /\ loads < MaxLoads
    /\ \E connectOk \in BOOLEAN :
        LET res == LoadResult(store, connectOk) IN
        /\ tree' = <<>> \o res.rows
        /\ notices' = res.notices
        /\ vconn' = res.conn
        /\ last' = [outcome |-> res.outcome, rows |-> res.rows, before |-> tree]
    /\ loads' = loads + 1
    /\ UNCHANGED <<store, appVars>>

\* feedback.db is created, removed or rewritten between two loads
StoreChanges ==
    /\ \E st \in StoreStates \ {store} : store' = st
    /\ UNCHANGED <<tree, notices, vconn, last, loads, appVars>>

\* The viewer: any clicks on the load button, the file changing in between.
ViewerNext ==
    \/ load_feedback
    \/ StoreChanges

ViewerSpec == Init /\ [][ViewerNext]_vars

\* ---------------------------------------------------------------- claims
WorkersRunning == {r \in Runs : Running(r)}

\* callbacks of run r still pending in the UI queue
Pending(r) == {k \in DOMAIN uiQueue : uiQueue[k].run = r}

\* C1: in every interleaving of clicks, worker steps and UI callbacks, at most
\* one run_analysis worker is running and the Analyze button is disabled
\* whenever a worker is running.
C1_SingleWorkerButtonDisabled ==
    /\ Cardinality(WorkersRunning) <= 1
    /\ WorkersRunning # {} => button = "disabled"

\* C2: for every run the button re-enable callback is posted and applied
\* exactly once: never twice, and once the run has returned and none of its
\* callbacks is pending, not zero times.
C2_EnableExactlyOnce ==
    \A r \in Runs :
        /\ hist[r].enablePosted <= 1
        /\ hist[r].enableApplied <= 1
        /\ worker[r].pc = "dead" => hist[r].enablePosted = 1
        /\ worker[r].pc = "dead" /\ Pending(r) = {} => hist[r].enableApplied = 1

\* C3: every run that is started (button disabled by start_analysis_thread)
\* leads to a state in which a re-enable callback of that run has been
\* applied and the button is enabled, whatever the outcome of the run.
C3_EventuallyEnabled ==
    \A r \in Runs :
        (worker[r].pc = "L113") ~> (button = "normal" /\ hist[r].enableApplied >= 1)

\* a run that ended in each of the exception handlers has had the button
\* enabled again
C3_Witness ==
    /\ button = "normal"
    /\ \E r \in Runs : hist[r].outcome = "unexpected" /\ hist[r].enableApplied >= 1
    /\ \E r \in Runs : hist[r].outcome = "dberror" /\ hist[r].enableApplied >= 1

\* ------------------------------------------------ claims on the pipeline
\* line 147 has been executed
Aggregated(r) == \E k \in DOMAIN worker[r].log : worker[r].log[k].ev = "aggregate"

\* the calls of analyze_single_review that returned a parsed result
Succeeded(resps) == SelectSeq(resps, LAMBDA x : x.kind = "json")

\* the calls that returned None
Failed(resps) == SelectSeq(resps, LAMBDA x : x.kind # "json")

\* all_sentiments and all_aspects as lines 139-142 build them from a
\* sequence of responses
RECURSIVE SentimentsFrom(_)
SentimentsFrom(resps) ==
    IF resps = <<>> THEN <<>>
    ELSE LET a == analyze_single_review(Head(resps))
         IN  (IF IfAnalysis(a) THEN <<GetSentiment(a)>> ELSE <<>>) \o SentimentsFrom(Tail(resps))

RECURSIVE AspectsFrom(_)
AspectsFrom(resps) ==
    IF resps = <<>> THEN <<>>
    ELSE LET a == analyze_single_review(Head(resps))
         IN  (IF IfAnalysis(a) THEN GetAspects(a) ELSE <<>>) \o AspectsFrom(Tail(resps))

\* C4: once sentiment_counts is computed for a non-empty batch, the sum of
\* its values equals the number of reviews whose analysis returned a parsed
\* result rather than None; so it is at most the number of reviews loaded,
\* and less when some analysis failed.
C4_CountsSumEqualsSucceeded ==
    \A r \in Runs :
        Aggregated(r) =>
            LET w == worker[r]
                total == SumValues(w.sentiment_counts)
            IN  /\ total = Len(Succeeded(w.responses))
                /\ total <= Len(w.all_reviews_text)
                /\ Failed(w.responses) # <<>> => total < Len(w.all_reviews_text)

\* C5: a run that loaded at least one review never enters an except clause,
\* whatever the analyzer returned for each review: it analyzes every review
\* and ends having posted populate_gui once.
C5_ItemFailureNeverAborts ==
    \A r \in Runs :
        worker[r].loaded > 0 =>
            /\ worker[r].pc \notin {"L166", "L168"}
            /\ worker[r].pc = "L171" =>
                /\ Len(worker[r].responses) = worker[r].loaded
                /\ hist[r].populatePosted = 1
                /\ hist[r].outcome = "completed"

\* C6: a review whose analysis failed adds nothing to all_sentiments and
\* all_aspects, so these, sentiment_counts and the two word lists are what
\* the same loop builds from the successfully analyzed reviews alone.
C6_FailedReviewsContributeNothing ==
    \A r \in Runs :
        LET w == worker[r]
            ok == Succeeded(w.responses)
        IN  /\ w.all_sentiments = SentimentsFrom(ok)
            /\ w.all_aspects = AspectsFrom(ok)
            /\ Len(w.all_results) <= Len(ok)
            /\ Aggregated(r) => w.sentiment_counts = Counter(SentimentsFrom(ok))
            /\ w.pc \in {"L154", "L155", "L160", "L163"} =>
                /\ w.pos_aspect_words = FeaturesOf(AspectsFrom(ok), "positive")
                /\ w.neg_aspect_words = FeaturesOf(AspectsFrom(ok), "negative")

\* the aggregate of a batch whose first review failed and whose second
\* brought a positive aspect
C6_Witness ==
    \E r \in Runs :
        /\ worker[r].pc = "L154"
        /\ Len(worker[r].responses) = 2
        /\ worker[r].responses[1].kind = "raise"
        /\ worker[r].pos_aspect_words # <<>>
        /\ SumValues(worker[r].sentiment_counts) = 1

\* C7: a run whose database step yields no review (connect or the query
\* raised, or zero rows) makes no service call, and when it has ended its
\* re-enable has been posted and, once none is pending, applied.
C7_NoReviewsNoServiceCalls ==
    \A r \in Runs :
        /\ worker[r].loaded \in {-1, 0} =>
            /\ worker[r].calls = 0
            /\ worker[r].responses = <<>>
            /\ worker[r].pc = "L171" => hist[r].outcome \in {"empty", "dberror", "unexpected"}
        /\ worker[r].pc = "dead" /\ hist[r].outcome \in {"empty", "dberror", "unexpected"} =>
            /\ hist[r].enablePosted >= 1
            /\ (\A k \in Pending(r) : uiQueue[k].type # "enable") => hist[r].enableApplied >= 1

\* a run that found no rows and a run whose database step raised have both
\* ended with the button enabled again
C7_Witness ==
    /\ button = "normal"
    /\ uiQueue = <<>>
    /\ \E r \in Runs : hist[r].outcome = "empty" /\ hist[r].enableApplied >= 1
    /\ \E r \in Runs : hist[r].outcome = "dberror" /\ hist[r].enableApplied >= 1

\* C8: a run that ends in an except clause posts one diagnostic status and
\* populate_gui is never posted or applied for it; a run that completes
\* posts populate_gui exactly once, as its last step before the final
\* status, and it is applied at most once.
C8_FailedRunNoPresentation ==
    \A r \in Runs :
        /\ worker[r].pc \in {"L166", "L168"} \/ hist[r].outcome \in {"dberror", "unexpected"} =>
            /\ hist[r].populatePosted = 0
            /\ hist[r].populateApplied = 0
            /\ \A k \in Pending(r) : uiQueue[k].type # "populate"
        /\ worker[r].pc = "L171" /\ hist[r].outcome \in {"dberror", "unexpected"} =>
            worker[r].diagPosted = 1
        /\ hist[r].outcome = "completed" =>
            /\ hist[r].populatePosted = 1
            /\ worker[r].pc = "L171" => worker[r].log[Len(worker[r].log)].ev = "handoff"
        /\ hist[r].populateApplied <= hist[r].populatePosted
        /\ hist[r].populatePosted <= 1

\* a run has failed in each handler and another has completed and been shown
C8_Witness ==
    /\ uiQueue = <<>>
    /\ \E r \in Runs : hist[r].outcome = "unexpected" /\ worker[r].pc = "dead"
    /\ \E r \in Runs : hist[r].outcome = "completed" /\ hist[r].populateApplied = 1

\* the summary call of run r raised
SummaryFailed(r) ==
    \E k \in DOMAIN worker[r].log : worker[r].log[k].ev = "summary" /\ worker[r].log[k].arg = 1

\* C9: when the summary call fails, final_summary is the diagnostic string,
\* the run goes on to post populate_gui with that string, and the counts,
\* word lists and results handed over are those the responses of the
\* analyzer determine, whatever the summary call did.
C9_SummaryFailureStillCompletes ==
    \A r \in Runs :
        SummaryFailed(r) =>
            LET w == worker[r] IN
            /\ w.final_summary = "Error generating final summary: e"
            /\ w.pc \in {"L160", "L163", "L171"}
            /\ w.pc \in {"L163", "L171"} =>
                /\ hist[r].populatePosted = 1
                /\ \E k \in Pending(r) :
                    /\ uiQueue[k].type = "populate"
                    /\ uiQueue[k].summary = "Error generating final summary: e"
                    /\ uiQueue[k].counts = Counter(SentimentsFrom(w.responses))
                    /\ uiQueue[k].pos = FeaturesOf(AspectsFrom(w.responses), "positive")
                    /\ uiQueue[k].neg = FeaturesOf(AspectsFrom(w.responses), "negative")
                    /\ uiQueue[k].results = w.all_results

\* a run over two reviews, one of them failed, ended after its summary call
\* failed
C9_Witness ==
    \E r \in Runs :
        /\ SummaryFailed(r)
        /\ worker[r].pc = "L171"
        /\ hist[r].outcome = "completed"
        /\ Len(worker[r].all_results) = 1
        /\ Len(worker[r].responses) = 2

\* the steps of a run over n rows, in the order of the code
StepOrder(n) ==
    <<[ev |-> "db", arg |-> n]>>
    \o [k \in 1..n |-> [ev |-> "analyze", arg |-> k]]
    \o <<[ev |-> "aggregate", arg |-> 0], [ev |-> "summary", arg |-> 0], [ev |-> "handoff", arg |-> 0]>>

\* the steps of a log, the outcome of the summary call left out
Steps(log) ==
    [k \in DOMAIN log |-> IF log[k].ev = "summary" THEN [ev |-> "summary", arg |-> 0] ELSE log[k]]

IsPrefix(s, t) == Len(s) <= Len(t) /\ \A k \in DOMAIN s : s[k] = t[k]

\* C10: the steps a run has taken are always a prefix of: database read,
\* analysis of rows 1..n in the order returned, aggregation, one summary
\* call, hand-off; so no review is analyzed twice and the summarizer is
\* called at most once and only after the last review. A completed run has
\* taken them all.
C10_StepsInOrder ==
    \A r \in Runs :
        LET w == worker[r] IN
        /\ w.loaded >= 1 => IsPrefix(Steps(w.log), StepOrder(w.loaded))
        /\ w.loaded \in {-1, 0} => w.log = <<[ev |-> "db", arg |-> w.loaded]>> \/ w.log = <<>>
        /\ w.pc = "L171" /\ hist[r].outcome = "completed" => Steps(w.log) = StepOrder(w.loaded)
        /\ w.calls = Cardinality({k \in DOMAIN w.log : w.log[k].ev \in {"analyze", "summary"}})

\* a run over MaxReviews rows, the first of which failed analysis, has taken
\* every step
C10_Witness ==
    \E r \in Runs :
        /\ worker[r].pc = "L171"
        /\ hist[r].outcome = "completed"
        /\ worker[r].loaded = MaxReviews
        /\ worker[r].responses[1].kind = "raise"

\* --------------------------------------------- claims on the connection
\* C11: a run whose sqlite3.connect succeeded has closed the connection by
\* the time run_analysis has returned, whether the query succeeded or
\* execute/fetchall raised.
C11_ConnectionAlwaysClosed ==
    \A r \in Runs :
        worker[r].pc = "dead" => worker[r].conn # "open"

\* ------------------------------------------- claims on thread confinement
\* a step changes the status label, the button or a tab
WidgetMutated == <<button, status, tabs>>' # <<button, status, tabs>>

\* a step of the thread of run r, already started
ThreadStepped(r) == worker[r].pc # "unstarted" /\ worker'[r] # worker[r]

\* a step reads the database or calls the service in run r
ExternalCall(r) ==
    \/ worker'[r].conn # worker[r].conn
    \/ Len(worker'[r].log) > Len(worker[r].log) /\ worker'[r].log[Len(worker'[r].log)].ev = "db"
    \/ worker'[r].calls > worker[r].calls

\* some step of run_analysis in the thread of run r
RunAnalysisStep(r) == WorkerStep(r, Responses, MaxReviews, PipelineQueue)

C13_RerunSameAggregate ==
    \A r1, r2 \in Runs :
        /\ hist[r1].aggregate # <<>> /\ hist[r2].aggregate # <<>>
                /\ hist[r1].rows = hist[r2].rows =>
            hist[r1].aggregate = hist[r2].aggregate
        /\ hist[r1].aggregate # <<>> =>
            LET answers == [k \in 1..hist[r1].rows |-> analyzer[k]]
                a == hist[r1].aggregate[1]
            IN  /\ a.counts = Counter(SentimentsFrom(answers))
                /\ a.pos = FeaturesOf(AspectsFrom(answers), "positive")
                /\ a.neg = FeaturesOf(AspectsFrom(answers), "negative")

\* a second run has aggregated the rows a first run had aggregated and shown
C13_Witness ==
    /\ hist[1].populateApplied = 1
    /\ hist[1].rows = MaxRows
    /\ hist[2].rows = MaxRows
    /\ worker[1].pc = "dead"
    /\ hist[2].aggregate # <<>>
    /\ hist[2].aggregate[1].pos \o hist[2].aggregate[1].neg # <<>>

\* ------------------------------------------- claims on the aspect lists
\* the features of the aspects of one sentiment, one entry per aspect, in
\* the order of the aspects
WordsOf(aspects, which) ==
    LET sel == SelectSeq(aspects, LAMBDA a : a.sentiment = which)
    IN  [k \in 1..Len(sel) |-> sel[k].feature]

\* C14: once the word lists are computed, pos_aspect_words is the features
\* of the positive aspects of the analyzed reviews, in review order then
\* aspect order, one entry per aspect, duplicates kept; neg_aspect_words
\* likewise for the negative ones; an aspect of any other sentiment is in
\* neither list and no aspect is in both.
C14_AspectWords ==
    \A r \in Runs :
        worker[r].pc \in {"L154", "L155", "L160", "L163"} =>
            LET w == worker[r]
                all == AspectsFrom(w.responses)
                other == SelectSeq(all, LAMBDA a : a.sentiment \notin {"positive", "negative"})
            IN  /\ w.all_aspects = all
                /\ w.pos_aspect_words = WordsOf(all, "positive")
                /\ w.neg_aspect_words = WordsOf(all, "negative")
                /\ Len(w.pos_aspect_words) + Len(w.neg_aspect_words) + Len(other) = Len(all)

\* one review brought the same positive feature twice, the next a neutral
\* aspect
C14_Witness ==
    \E r \in Runs :
        /\ worker[r].pc = "L154"
        /\ worker[r].pos_aspect_words = <<"display", "display">>
        /\ worker[r].neg_aspect_words = <<>>
        /\ Len(worker[r].all_aspects) = 3
        /\ worker[r].all_aspects[3].sentiment = "neutral"

\* ------------------------------------------------ claims on the listing
\* C15: the all_results handed to populate_gui has one entry per row the
\* query returned, in the order of the rows, each with the review and its
\* analysis, also when the analysis of some review failed.
C15_ListingHasEveryReview ==
    \A k \in DOMAIN uiQueue :
        uiQueue[k].type = "populate" =>
            LET cb == uiQueue[k]
                rows == hist[cb.run].rows
            IN  /\ Len(cb.results) = rows
                /\ \A j \in 1..Len(cb.results) : cb.results[j].review = j

\* ------------------------------------------- claims on the empty result
\* What the text of each status of run_analysis starts with before its
\* colon: lines 122, 166 and 168 announce an error, the others are plain
\* progress messages.
StatusLabel(m) ==
    CASE m = "noreviews" -> "Error"
      [] m = "dberror" -> "Database Error"
      [] m = "unexpected" -> "An unexpected error occurred"
      [] OTHER -> ""

\* a status that is not worded as an error
Informational(m) == StatusLabel(m) = ""

\* C16: a run whose query returned zero rows reports it with a status of the
\* informational kind, never enters an except clause, and when it has
\* returned its re-enable has been posted.
C16_EmptyResultInformational ==
    \A r \in Runs :
        hist[r].outcome = "empty" =>
            /\ worker[r].pc \notin {"L166", "L168"}
            /\ worker[r].diagPosted = 0
            /\ \A k \in Pending(r) :
                uiQueue[k].type = "status" => Informational(uiQueue[k].msg)
            /\ worker[r].pc = "dead" => hist[r].enablePosted >= 1

\* ------------------------------------------------- claims on the viewer
\* C17: after any sequence of calls of load_feedback the grid holds the
\* outcome of the latest call alone: the rows its query returned, in their
\* order, when the file existed and the query succeeded, and nothing when the
\* file was absent or the call failed; no row of an earlier load remains.
C17_GridIsLastLoad ==
    /\ last.outcome \in {"rows", "empty"} => tree = last.rows
    /\ last.outcome \in {"absent", "connectfailed", "queryfailed", "none"} => tree = <<>>
    /\ Len(tree) = Len(last.rows)

\* a load over rows replaced the different rows an earlier load had shown
C17_Witness ==
    /\ loads = 2
    /\ last.outcome = "rows"
    /\ last.before # <<>>
    /\ tree = last.rows
    /\ \E k \in DOMAIN last.before : \A j \in DOMAIN tree : tree[j] # last.before[k]

\* C18: a call of load_feedback shows one error notice when the file is
\* absent, and opens no connection; one error notice when connecting or the
\* query fails; one informational notice when the query returns no rows; no
\* notice when it returns rows; and it never returns with the connection it
\* opened still open.
C18_OneNoticePerOutcome ==
    /\ last.outcome = "absent" => notices = <<ShowError("Error")>> /\ vconn = "none"
    /\ last.outcome \in {"connectfailed", "queryfailed"} =>
            /\ Len(notices) = 1
            /\ notices[1].kind = "error"
    /\ last.outcome = "empty" => notices = <<ShowInfo>>
    /\ last.outcome = "rows" => notices = <<>>
    /\ last.outcome \in {"queryfailed", "empty", "rows"} => vconn = "closed"
    /\ vconn # "open"

\* the query of the second load failed on a file that had rows at the first
C18_Witness ==
    /\ loads = 2
    /\ last.outcome = "queryfailed"
    /\ last.before # <<>>
    /\ vconn = "closed"

\* ------------------------------------------------ claims on the display
\* C19: in every state, after any runs of any outcomes and any interleaving
\* of their callbacks, each of the five tabs is empty or shows the content of
\* one run only.
C19_RegionsNeverMixRuns ==
    \A t \in Regions : Cardinality(tabs[t]) <= 1

\* the tabs show a completed run while the populate_gui of another run,
\* started beside it, is the next callback
C19_Witness ==
    /\ uiQueue # <<>>
    /\ Head(uiQueue).type = "populate"
    /\ \E r \in Runs :
        /\ r # Head(uiQueue).run
        /\ \A t \in Regions : tabs[t] = {r}

\* ------------------------------------------------ claims on the hand-off
\* the place of a callback of a completed run in the order of lines 160-171
HandoffRank(cb) ==
    IF cb.type = "populate" THEN 1
    ELSE IF cb.type = "status" /\ cb.msg = "complete" THEN 2
    ELSE IF cb.type = "enable" THEN 3
    ELSE 0

\* C20: the callbacks of a run are pending in the order populate_gui,
\* 'Analysis complete', re-enable, and they are applied in that order, so a
\* completed run whose re-enable has been applied has had its results shown;
\* and while the populate_gui of a run is still pending the button is
\* disabled, so that no run can be started before the results are shown.
C20_ResultsShownBeforeNextRun ==
    \A r \in Runs :
        /\ \A j, k \in Pending(r) :
            j < k => HandoffRank(uiQueue[j]) <= HandoffRank(uiQueue[k])
        /\ hist[r].outcome = "completed" /\ hist[r].enableApplied >= 1 =>
            hist[r].populateApplied = 1
        /\ \A k \in Pending(r) : uiQueue[k].type = "populate" => button = "disabled"

====
